---- MODULE Spec2Model ----
(***************************************************************************)
(* Message routing of the AxoChat server: ChatServer::handle_message,      *)
(* ChatServer::handle_private_message, ChatServer::basic_check and         *)
(* check_ratelimit (src/src/chat/handler/message.rs), with the client      *)
(* facing errors of src/src/error.rs.                                      *)
(*                                                                         *)
(* The registry (connections, ids) is the ChatServer's state.  One step of *)
(* the model is one whole handler call: the server is a single actor, a    *)
(* handler runs to completion.  `log` is the ordered list of calls the     *)
(* handler made on its collaborators (rate limiter, validator, moderation  *)
(* store, delivery sinks) while it handled the event described by `last`.  *)
(* A do_send whose result is FALSE is a send the sink refused; the code    *)
(* discards the result of every send of an Error packet (.ok(), let _ =).  *)
(* A panic entry is an unwrap() that found None; it ends the handler.      *)
(***************************************************************************)
EXTENDS Integers, Sequences, FiniteSets, TLC

VARIABLES connections, ids, banned, last, log

vars == <<connections, ids, banned, last, log>>

-----------------------------------------------------------------------------
(* Bounds *)

\* connection identifiers (InternalId) are 1..MaxConn
MaxConn == 2

-----------------------------------------------------------------------------
(* Values *)

InternalIds == 1..MaxConn

Names == {"alice", "bob"}

\* Option<T>
None == <<>>

Some(x) == <<x>>

is_some(o) == o # None

unwrap(o) == o[1]

\* the durable account identifier of an account
UuidOf(name) == <<"uuid", name>>

\* Id: the public identifier derived from a user name (name.as_str().into())
IdOf(name) == <<"id", name>>

Ids == {IdOf(n) : n \in Names}

\* UserInfo of a session (name, uuid and the allow_messages preference)
UserInfo(name, allow) == [name |-> name, uuid |-> UuidOf(name), allow_messages |-> allow]

\* ClientError (the variants the message handlers and the validator produce)
NotLoggedIn == <<"NotLoggedIn">>

RateLimited == <<"RateLimited">>

PrivateMessageNotAccepted == <<"PrivateMessageNotAccepted">>

EmptyMessage == <<"EmptyMessage">>

MessageTooLong == <<"MessageTooLong">>

InvalidCharacter(ch) == <<"InvalidCharacter", ch>>

Banned == <<"Banned">>

\* Error::AxoChat { source }
AxoChat(source) == [variant |-> "AxoChat", source |-> source]

Ok == [variant |-> "Ok"]

\* ClientPacket
ErrorPacket(message) == [type |-> "Error", message |-> message]

MessagePacket(info, content) ==
    [type |-> "Message", author_id |-> IdOf(info.name),
     author_info |-> Some([name |-> info.name, uuid |-> info.uuid]), content |-> content]

PrivateMessagePacket(info, content) ==
    [type |-> "PrivateMessage", author_id |-> IdOf(info.name),
     author_info |-> Some([name |-> info.name, uuid |-> info.uuid]), content |-> content]

-----------------------------------------------------------------------------
(* Collaborators *)

\* message contents: strings as sequences of characters
AllowedChars == {"h", "i"}

MaxMessageLength == 2

Contents == {<<>>, <<"h", "i">>, <<"h", "BEL">>, <<"h", "i", "h">>}

RECURSIVE FirstInvalid(_)
FirstInvalid(content) ==
    IF content = <<>> THEN None
    ELSE IF Head(content) \notin AllowedChars THEN Some(Head(content))
    ELSE FirstInvalid(Tail(content))

\* Validator.validate(content) -> Result<(), Error>
validate(content) ==
    IF Len(content) = 0 THEN AxoChat(EmptyMessage)
    ELSE IF Len(content) > MaxMessageLength THEN AxoChat(MessageTooLong)
    ELSE IF is_some(FirstInvalid(content)) THEN AxoChat(InvalidCharacter(unwrap(FirstInvalid(content))))
    ELSE Ok

\* the number of messages a session may send within one window
RateLimit == 1

\* RateLimiter::check_new_message: the limiter holds the number of messages it
\* has let pass in the current window; it lets the attempt pass and counts it
\* while the budget lasts, and answers "over budget" otherwise
check_new_message(rate_limiter) ==
    IF rate_limiter < RateLimit
    THEN [rate_limiter |-> rate_limiter + 1, over |-> FALSE]
    ELSE [rate_limiter |-> rate_limiter, over |-> TRUE]

\* ModerationStore.is_banned(uuid)
is_banned(uuid) == uuid \in banned

-----------------------------------------------------------------------------
(* The log of collaborator calls *)

Call(op, target, payload, result) ==
    [op |-> op, target |-> target, payload |-> payload, result |-> result]

RECURSIVE NumSends(_)
NumSends(l) ==
    IF l = <<>> THEN 0
    ELSE (IF Head(l).op = "do_send" THEN 1 ELSE 0) + NumSends(Tail(l))

\* session.addr.do_send(packet): the k-th send of a handler fails iff k \in fails
do_send(l, to, packet, fails) ==
    Append(l, Call("do_send", to, packet, (NumSends(l) + 1) \notin fails))

send_ok(l) == l[Len(l)].result

\* a failed expect() or unwrap() ends the handler: the panic is the last entry
panic(l, what) == Append(l, Call("panic", None, what, FALSE))

-----------------------------------------------------------------------------
(* src/src/chat/handler/message.rs *)

\* check_ratelimit, but the session it is handed loses its identity
check_ratelimit_drops_identity(conns, user_id, l, fails) ==
    LET r == check_new_message(conns[user_id].rate_limiter)
        conns1 == [conns EXCEPT ![user_id].rate_limiter = r.rate_limiter,
                                ![user_id].user = None]
        l1 == Append(l, Call("check_new_message", user_id, None, r.over))
    IN  IF r.over
        THEN [ret |-> TRUE, connections |-> conns1,
              log |-> do_send(l1, user_id, ErrorPacket(RateLimited), fails)]
        ELSE [ret |-> FALSE, connections |-> conns1, log |-> l1]

\* check_ratelimit, but the attempt is counted against every session
check_ratelimit_charges_all(conns, user_id, l, fails) ==
    LET r == check_new_message(conns[user_id].rate_limiter)
        conns1 == [c \in DOMAIN conns |->
                     [conns[c] EXCEPT !.rate_limiter
                                         = check_new_message(conns[c].rate_limiter).rate_limiter]]
        l1 == Append(l, Call("check_new_message", user_id, None, r.over))
    IN  IF r.over
        THEN [ret |-> TRUE, connections |-> conns1,
              log |-> do_send(l1, user_id, ErrorPacket(RateLimited), fails)]
        ELSE [ret |-> FALSE, connections |-> conns1, log |-> l1]

\* fn check_ratelimit(user_id, session: &mut SessionState) -> bool
check_ratelimit(conns, user_id, l, fails) ==
    LET r == check_new_message(conns[user_id].rate_limiter)
        conns1 == [conns EXCEPT ![user_id].rate_limiter = r.rate_limiter]
        l1 == Append(l, Call("check_new_message", user_id, None, r.over))
    IN  IF r.over
        THEN [ret |-> TRUE, connections |-> conns1,
              log |-> do_send(l1, user_id, ErrorPacket(RateLimited), fails)]
        ELSE [ret |-> FALSE, connections |-> conns1, log |-> l1]

\* basic_check, but a session without identity is rejected without a word
basic_check_silent(conns, user_id, content, l, fails) ==
    LET session == conns[user_id] IN
    IF is_some(session.user)
    THEN LET info == unwrap(session.user)
             err == validate(content)
             l1 == Append(l, Call("validate", None, content, err))
         IN  IF err # Ok
             THEN [ret |-> None,
                   log |-> IF err.variant = "AxoChat"
                           THEN do_send(l1, user_id, ErrorPacket(err.source), fails)
                           ELSE l1]
             ELSE LET b == is_banned(info.uuid)
                      l2 == Append(l1, Call("is_banned", info.uuid, None, b))
                  IN  IF b
                      THEN [ret |-> None,
                            log |-> do_send(l2, user_id, ErrorPacket(Banned), fails)]
                      ELSE [ret |-> Some(user_id), log |-> l2]
    ELSE [ret |-> None, log |-> l]

\* basic_check, but the moderation store is not asked
basic_check_no_ban(conns, user_id, content, l, fails) ==
    LET session == conns[user_id] IN
    IF is_some(session.user)
    THEN LET err == validate(content)
             l1 == Append(l, Call("validate", None, content, err))
         IN  IF err # Ok
             THEN [ret |-> None,
                   log |-> IF err.variant = "AxoChat"
                           THEN do_send(l1, user_id, ErrorPacket(err.source), fails)
                           ELSE l1]
             ELSE [ret |-> Some(user_id), log |-> l1]
    ELSE [ret |-> None, log |-> do_send(l, user_id, ErrorPacket(NotLoggedIn), fails)]

\* basic_check, but every content rejection is reported as EmptyMessage
basic_check_fixed_reason(conns, user_id, content, l, fails) ==
    LET session == conns[user_id] IN
    IF is_some(session.user)
    THEN LET info == unwrap(session.user)
             err == validate(content)
             l1 == Append(l, Call("validate", None, content, err))
         IN  IF err # Ok
             THEN [ret |-> None,
                   log |-> do_send(l1, user_id, ErrorPacket(EmptyMessage), fails)]
             ELSE LET b == is_banned(info.uuid)
                      l2 == Append(l1, Call("is_banned", info.uuid, None, b))
                  IN  IF b
                      THEN [ret |-> None,
                            log |-> do_send(l2, user_id, ErrorPacket(Banned), fails)]
                      ELSE [ret |-> Some(user_id), log |-> l2]
    ELSE [ret |-> None, log |-> do_send(l, user_id, ErrorPacket(NotLoggedIn), fails)]

\* basic_check, but the ban is looked up before the content is validated
basic_check_ban_first(conns, user_id, content, l, fails) ==
    LET session == conns[user_id] IN
    IF is_some(session.user)
    THEN LET info == unwrap(session.user)
             b == is_banned(info.uuid)
             l1 == Append(l, Call("is_banned", info.uuid, None, b))
         IN  IF b
             THEN [ret |-> None, log |-> do_send(l1, user_id, ErrorPacket(Banned), fails)]
             ELSE LET err == validate(content)
                      l2 == Append(l1, Call("validate", None, content, err))
                  IN  IF err # Ok
                      THEN [ret |-> None,
                            log |-> IF err.variant = "AxoChat"
                                    THEN do_send(l2, user_id, ErrorPacket(err.source), fails)
                                    ELSE l2]
                      ELSE [ret |-> Some(user_id), log |-> l2]
    ELSE [ret |-> None, log |-> do_send(l, user_id, ErrorPacket(NotLoggedIn), fails)]

\* fn basic_check(&self, user_id, content) -> Option<&SessionState>
\* (the session returned is the one of user_id: ret is Some(user_id))
basic_check(conns, user_id, content, l, fails) ==
    LET session == conns[user_id] IN
    IF is_some(session.user)
    THEN LET info == unwrap(session.user)
             err == validate(content)
             l1 == Append(l, Call("validate", None, content, err))
         IN  IF err # Ok
             THEN [ret |-> None,
                   log |-> IF err.variant = "AxoChat"
                           THEN do_send(l1, user_id, ErrorPacket(err.source), fails)
                           ELSE l1]
             ELSE LET b == is_banned(info.uuid)
                      l2 == Append(l1, Call("is_banned", info.uuid, None, b))
                  IN  IF b
                      THEN [ret |-> None,
                            log |-> do_send(l2, user_id, ErrorPacket(Banned), fails)]
                      ELSE [ret |-> Some(user_id), log |-> l2]
    ELSE [ret |-> None, log |-> do_send(l, user_id, ErrorPacket(NotLoggedIn), fails)]

\* self.connections.values(): the sessions of the registry, here by ascending id
RECURSIVE values(_)
values(S) ==
    IF S = {} THEN <<>>
    ELSE LET m == CHOOSE x \in S : \A y \in S : x <= y
         IN  <<m>> \o values(S \ {m})

\* the broadcast loop, but the first failed send ends it
RECURSIVE broadcast_stops_on_error(_, _, _, _)
broadcast_stops_on_error(sessions, packet, l, fails) ==
    IF sessions = <<>> THEN l
    ELSE LET l1 == do_send(l, Head(sessions), packet, fails)
         IN  IF send_ok(l1)
             THEN broadcast_stops_on_error(Tail(sessions), packet, l1, fails)
             ELSE l1

\* for session in self.connections.values() { session.addr.do_send(packet.clone()) }
RECURSIVE broadcast(_, _, _, _)
broadcast(sessions, packet, l, fails) ==
    IF sessions = <<>> THEN l
    ELSE broadcast(Tail(sessions), packet, do_send(l, Head(sessions), packet, fails), fails)

\* handle_message, but the answer of the rate limiter is ignored
handle_message_ignores_limit(conns, user_id, content, fails) ==
    LET checked == basic_check(conns, user_id, content, <<>>, fails) IN
    IF is_some(checked.ret)
    THEN LET limited == check_ratelimit(conns, user_id, checked.log, fails)
             info == unwrap(limited.connections[user_id].user)
             client_packet == MessagePacket(info, content)
         IN  IF limited.connections[user_id].user = None
             THEN [connections |-> limited.connections,
                   log |-> panic(limited.log, "unwrap on None")]
             ELSE [connections |-> limited.connections,
                   log |-> broadcast(values(DOMAIN limited.connections), client_packet,
                                     limited.log, fails)]
    ELSE [connections |-> conns, log |-> checked.log]

\* handle_message, but a broadcast with a failed delivery is reported to the
\* sender
handle_message_reports_failures(conns, user_id, content, fails) ==
    LET checked == basic_check(conns, user_id, content, <<>>, fails) IN
    IF is_some(checked.ret)
    THEN LET limited == check_ratelimit(conns, user_id, checked.log, fails) IN
         IF limited.ret
         THEN [connections |-> limited.connections, log |-> limited.log]
         ELSE IF limited.connections[user_id].user = None
              THEN [connections |-> limited.connections,
                    log |-> panic(limited.log, "unwrap on None")]
              ELSE
              LET info == unwrap(limited.connections[user_id].user)
                  client_packet == MessagePacket(info, content)
                  sent == broadcast(values(DOMAIN limited.connections), client_packet,
                                    limited.log, fails)
              IN  [connections |-> limited.connections,
                   log |-> IF \E i \in 1..Len(sent) : sent[i].op = "do_send" /\ ~sent[i].result
                           THEN do_send(sent, user_id, ErrorPacket(PrivateMessageNotAccepted),
                                        fails)
                           ELSE sent]
    ELSE [connections |-> conns, log |-> checked.log]

\* handle_message, but the sender's own session is left out of the broadcast
handle_message_excludes_sender(conns, user_id, content, fails) ==
    LET checked == basic_check(conns, user_id, content, <<>>, fails) IN
    IF is_some(checked.ret)
    THEN LET limited == check_ratelimit(conns, user_id, checked.log, fails) IN
         IF limited.ret
         THEN [connections |-> limited.connections, log |-> limited.log]
         ELSE IF limited.connections[user_id].user = None
              THEN [connections |-> limited.connections,
                    log |-> panic(limited.log, "unwrap on None")]
              ELSE
              LET info == unwrap(limited.connections[user_id].user)
                  client_packet == MessagePacket(info, content)
              IN  [connections |-> limited.connections,
                   log |-> broadcast(values(DOMAIN limited.connections \ {user_id}),
                                     client_packet, limited.log, fails)]
    ELSE [connections |-> conns, log |-> checked.log]

\* handle_message, but the rate limiter is asked before basic_check
handle_message_charges_first(conns, user_id, content, fails) ==
    LET limited == check_ratelimit(conns, user_id, <<>>, fails) IN
    IF limited.ret
    THEN [connections |-> limited.connections, log |-> limited.log]
    ELSE LET conns1 == limited.connections
             checked == basic_check(conns1, user_id, content, limited.log, fails)
         IN  IF is_some(checked.ret)
             THEN LET info == unwrap(conns1[user_id].user)
                      client_packet == MessagePacket(info, content)
                  IN  [connections |-> conns1,
                       log |-> broadcast(values(DOMAIN conns1), client_packet,
                                         checked.log, fails)]
             ELSE [connections |-> conns1, log |-> checked.log]

\* pub(super) fn handle_message(&mut self, user_id, content)
handle_message(conns, user_id, content, fails) ==
    LET checked == basic_check(conns, user_id, content, <<>>, fails) IN
    IF is_some(checked.ret)
    THEN LET limited == check_ratelimit(conns, user_id, checked.log, fails) IN
         IF limited.ret
         THEN [connections |-> limited.connections, log |-> limited.log]
         ELSE IF limited.connections[user_id].user = None
              THEN [connections |-> limited.connections,
                    log |-> panic(limited.log, "unwrap on None")]
              ELSE
              LET info == unwrap(limited.connections[user_id].user)
                  client_packet == MessagePacket(info, content)
              IN  [connections |-> limited.connections,
                   log |-> broadcast(values(DOMAIN limited.connections), client_packet,
                                     limited.log, fails)]
    ELSE [connections |-> conns, log |-> checked.log]

\* receiver_ids.iter().filter_map(|id| self.connections.get(id))
RECURSIVE filter_map(_, _)
filter_map(receiver_ids, conns) ==
    IF receiver_ids = <<>> THEN <<>>
    ELSE (IF Head(receiver_ids) \in DOMAIN conns THEN <<Head(receiver_ids)>> ELSE <<>>)
         \o filter_map(Tail(receiver_ids), conns)

\* the delivery loop, but a failed delivery ends the search
RECURSIVE deliver_gives_up(_, _, _, _, _, _)
deliver_gives_up(conns, receivers, sender_session, content, l, fails) ==
    IF receivers = <<>> THEN [returned |-> FALSE, log |-> l]
    ELSE LET receiver_session == conns[Head(receivers)] IN
         IF is_some(receiver_session.user) /\ unwrap(receiver_session.user).allow_messages
         THEN IF sender_session.user = None
              THEN [returned |-> TRUE, log |-> panic(l, "unwrap on None")]
              ELSE
              LET l1 == do_send(l, Head(receivers),
                                PrivateMessagePacket(unwrap(sender_session.user), content),
                                fails)
              IN  [returned |-> send_ok(l1), log |-> l1]
         ELSE deliver_gives_up(conns, Tail(receivers), sender_session, content, l, fails)

\* the delivery loop, but it goes on after a successful delivery
RECURSIVE deliver_fans_out(_, _, _, _, _, _)
deliver_fans_out(conns, receivers, sender_session, content, l, fails) ==
    IF receivers = <<>> THEN [returned |-> FALSE, log |-> l]
    ELSE LET receiver_session == conns[Head(receivers)] IN
         IF is_some(receiver_session.user) /\ unwrap(receiver_session.user).allow_messages
         THEN IF sender_session.user = None
              THEN [returned |-> TRUE, log |-> panic(l, "unwrap on None")]
              ELSE
              LET l1 == do_send(l, Head(receivers),
                                PrivateMessagePacket(unwrap(sender_session.user), content),
                                fails)
                  rest == deliver_fans_out(conns, Tail(receivers), sender_session, content,
                                           l1, fails)
              IN  [returned |-> send_ok(l1) \/ rest.returned, log |-> rest.log]
         ELSE deliver_fans_out(conns, Tail(receivers), sender_session, content, l, fails)

\* the for loop of handle_private_message: returned is TRUE when the handler
\* ended inside the loop, on a delivery that succeeded (or on a panic)
RECURSIVE deliver(_, _, _, _, _, _)
deliver(conns, receivers, sender_session, content, l, fails) ==
    IF receivers = <<>> THEN [returned |-> FALSE, log |-> l]
    ELSE LET receiver_session == conns[Head(receivers)] IN
         IF is_some(receiver_session.user) /\ unwrap(receiver_session.user).allow_messages
         THEN IF sender_session.user = None
              THEN [returned |-> TRUE, log |-> panic(l, "unwrap on None")]
              ELSE
              LET l1 == do_send(l, Head(receivers),
                                PrivateMessagePacket(unwrap(sender_session.user), content),
                                fails)
              IN  IF send_ok(l1)
                  THEN [returned |-> TRUE, log |-> l1]
                  ELSE deliver(conns, Tail(receivers), sender_session, content, l1, fails)
         ELSE deliver(conns, Tail(receivers), sender_session, content, l, fails)

\* the None arm, but the sender is told that the message was not accepted
receiver_unknown_notifies(user_id, l, fails) ==
    do_send(l, user_id, ErrorPacket(PrivateMessageNotAccepted), fails)

\* the None arm of self.ids.get(&receiver): a debug! line, then return
receiver_unknown(user_id, l, fails) == l

\* the tail of handle_private_message, but nothing is sent
not_accepted_silent(user_id, l, fails) == l

\* the tail of handle_private_message: PrivateMessageNotAccepted to the sender
not_accepted(user_id, l, fails) ==
    do_send(l, user_id, ErrorPacket(PrivateMessageNotAccepted), fails)

\* handle_private_message, but basic_check runs before the rate limiter is asked
handle_private_message_checks_first(conns, index, user_id, receiver, content, fails) ==
    LET checked == basic_check(conns, user_id, content, <<>>, fails) IN
    IF is_some(checked.ret)
    THEN LET limited == check_ratelimit(conns, user_id, checked.log, fails)
             conns1 == limited.connections
         IN  IF limited.ret
             THEN [connections |-> conns1, log |-> limited.log]
             ELSE IF receiver \notin DOMAIN index
                  THEN [connections |-> conns1,
                        log |-> receiver_unknown(user_id, limited.log, fails)]
                  ELSE LET d == deliver(conns1, filter_map(index[receiver], conns1),
                                        conns1[user_id], content,
                                        limited.log, fails)
                       IN  IF d.returned
                           THEN [connections |-> conns1, log |-> d.log]
                           ELSE [connections |-> conns1,
                                 log |-> not_accepted(user_id, d.log, fails)]
    ELSE [connections |-> conns, log |-> not_accepted(user_id, checked.log, fails)]

\* pub(super) fn handle_private_message(&mut self, user_id, receiver, content)
handle_private_message(conns, index, user_id, receiver, content, fails) ==
    LET limited == check_ratelimit(conns, user_id, <<>>, fails) IN
    IF limited.ret
    THEN [connections |-> limited.connections, log |-> limited.log]
    ELSE LET conns1 == limited.connections
             checked == basic_check(conns1, user_id, content, limited.log, fails)
         IN  IF is_some(checked.ret)
             THEN IF receiver \notin DOMAIN index
                  THEN [connections |-> conns1,
                        log |-> receiver_unknown(user_id, checked.log, fails)]
                  ELSE LET sender_session == conns1[unwrap(checked.ret)]
                           d == deliver(conns1, filter_map(index[receiver], conns1),
                                        sender_session, content,
                                        checked.log, fails)
                       IN  IF d.returned
                           THEN [connections |-> conns1, log |-> d.log]
                           ELSE [connections |-> conns1,
                                 log |-> not_accepted(user_id, d.log, fails)]
             ELSE [connections |-> conns1, log |-> not_accepted(user_id, checked.log, fails)]

-----------------------------------------------------------------------------
(* The registry and its environment *)

\* SessionState { addr, user: Option<UserInfo>, rate_limiter }
SessionState(user, rate_limiter) == [user |-> user, rate_limiter |-> rate_limiter]

NoEvent == [kind |-> "none"]

\* the server is between two events: the last handler has returned
Idle == last = NoEvent

Init ==
    /\ connections = <<>>
    /\ ids = <<>>
    /\ banned = {}
    /\ last = NoEvent
    /\ log = <<>>

\* a client connects: a session without identity, with a fresh rate limiter
Connect ==
    /\ Idle
    /\ \E id \in InternalIds \ DOMAIN connections :
        /\ connections' = [c \in DOMAIN connections \cup {id} |->
                             IF c = id THEN SessionState(None, 0) ELSE connections[c]]
        /\ last' = NoEvent
        /\ log' = <<>>
        /\ UNCHANGED <<ids, banned>>

\* s with x inserted so that it becomes the element at position i
InsertAt(s, i, x) == SubSeq(s, 1, i - 1) \o <<x>> \o SubSeq(s, i, Len(s))

\* the set of connections of an identity iterates in some order of its own
Login ==
    /\ Idle
    /\ \E id \in DOMAIN connections, name \in Names, allow \in BOOLEAN :
        /\ connections[id].user = None
        /\ LET info == UserInfo(name, allow)
               old == IF IdOf(name) \in DOMAIN ids THEN ids[IdOf(name)] ELSE <<>>
           IN  /\ connections' = [connections EXCEPT ![id].user = Some(info)]
               /\ \E i \in 1..(Len(old) + 1) :
                      ids' = [k \in DOMAIN ids \cup {IdOf(name)} |->
                                IF k = IdOf(name) THEN InsertAt(old, i, id) ELSE ids[k]]
        /\ last' = NoEvent
        /\ log' = <<>>
        /\ UNCHANGED banned

RECURSIVE Without(_, _)
Without(s, x) ==
    IF s = <<>> THEN <<>>
    ELSE (IF Head(s) = x THEN <<>> ELSE <<Head(s)>>) \o Without(Tail(s), x)

\* a client disconnects: its session leaves both maps; the entry of an identity
\* left without connections is dropped or kept empty
Disconnect ==
    /\ Idle
    /\ \E id \in DOMAIN connections, prune \in BOOLEAN :
        /\ connections' = [c \in DOMAIN connections \ {id} |-> connections[c]]
        /\ LET cleaned == [k \in DOMAIN ids |-> Without(ids[k], id)]
               keep == IF prune THEN {k \in DOMAIN ids : cleaned[k] # <<>>} ELSE DOMAIN ids
           IN  ids' = [k \in keep |-> cleaned[k]]
        /\ last' = NoEvent
        /\ log' = <<>>
        /\ UNCHANGED banned

\* the window of a rate limiter elapses
Elapse ==
    /\ Idle
    /\ \E id \in DOMAIN connections :
        /\ connections[id].rate_limiter > 0
        /\ connections' = [connections EXCEPT ![id].rate_limiter = 0]
        /\ last' = NoEvent
        /\ log' = <<>>
        /\ UNCHANGED <<ids, banned>>

\* a moderator bans or unbans an account
Moderate ==
    /\ Idle
    /\ \E name \in Names :
        /\ banned' = IF UuidOf(name) \in banned THEN banned \ {UuidOf(name)}
                     ELSE banned \cup {UuidOf(name)}
        /\ last' = NoEvent
        /\ log' = <<>>
        /\ UNCHANGED <<connections, ids>>

\* the outcomes of the sends of one handler: the indices of the sends that fail
MaxSends == MaxConn + 1

HandleMessage ==
    /\ Idle
    /\ \E user_id \in DOMAIN connections, content \in Contents :
        /\ \E fails \in SUBSET (1..NumSends(handle_message(connections, user_id, content,
                                                           1..MaxSends).log)) :
              LET r == handle_message(connections, user_id, content, fails)
              IN  /\ connections' = r.connections
                  /\ log' = r.log
        /\ last' = [kind |-> "message", user_id |-> user_id, receiver |-> None,
                    content |-> content, pre |-> connections]
        /\ UNCHANGED <<ids, banned>>

HandlePrivateMessage ==
    /\ Idle
    /\ \E user_id \in DOMAIN connections, receiver \in Ids, content \in Contents :
        /\ \E fails \in SUBSET (1..NumSends(handle_private_message(connections, ids,
                                        user_id, receiver, content, 1..MaxSends).log)) :
              LET r == handle_private_message(connections, ids, user_id, receiver,
                                              content, fails)
              IN  /\ connections' = r.connections
                  /\ log' = r.log
        /\ last' = [kind |-> "private_message", user_id |-> user_id,
                    receiver |-> Some(receiver), content |-> content, pre |-> connections]
        /\ UNCHANGED <<ids, banned>>

\* the handler has returned; the server takes the next event
Return ==
    /\ ~Idle
    /\ last' = NoEvent
    /\ log' = <<>>
    /\ UNCHANGED <<connections, ids, banned>>

Next ==
    \/ Connect
    \/ Login
    \/ Disconnect
    \/ Elapse
    \/ Moderate
    \/ HandleMessage
    \/ HandlePrivateMessage
    \/ Return

Spec == Init /\ [][Next]_vars

-----------------------------------------------------------------------------
(* A crowded registry: one session more than Spec ever holds, each with or  *)
(* without identity, and one event handled on it.  Every such registry is   *)
(* one that connects and logins lead to.                                     *)

CrowdIds == InternalIds \cup {MaxConn + 1}

\* the orders in which the set S can be listed
Orders(S) ==
    {s \in [1..Cardinality(S) -> S] : \A i, j \in 1..Cardinality(S) : i # j => s[i] # s[j]}

\* the sessions of conns logged in under name
LoggedInAs(conns, name) ==
    {id \in DOMAIN conns : is_some(conns[id].user) /\ unwrap(conns[id].user).name = name}

InitCrowd ==
    /\ connections \in [CrowdIds -> {SessionState(None, 0)} \cup
                                    {SessionState(Some(UserInfo(n, a)), 0) :
                                        n \in Names, a \in BOOLEAN}]
    /\ LET present == {n \in Names : LoggedInAs(connections, n) # {}}
       IN  ids \in {f \in [{IdOf(n) : n \in present}
                              -> UNION {Orders(S) : S \in SUBSET CrowdIds}] :
                      \A n \in present : f[IdOf(n)] \in Orders(LoggedInAs(connections, n))}
    /\ banned = {}
    /\ last = NoEvent
    /\ log = <<>>

NextCrowd ==
    \/ HandleMessage
    \/ HandlePrivateMessage

SpecCrowd == InitCrowd /\ [][NextCrowd]_vars

-----------------------------------------------------------------------------
(* Observations on the event just handled *)

Handled == last.kind # "none"

IsBroadcast == last.kind = "message"

IsPrivate == last.kind = "private_message"

\* the sender's session as it was when the event was taken
Sender == last.pre[last.user_id]

SenderLoggedIn == is_some(Sender.user)

SenderBanned == SenderLoggedIn /\ unwrap(Sender.user).uuid \in banned

ContentValid == validate(last.content) = Ok

\* the sender's rate limiter answers "over budget" to the attempt
OverBudget == check_new_message(Sender.rate_limiter).over

IsSend(e) == e.op = "do_send"

IsDispatch(e) == IsSend(e) /\ e.payload.type \in {"Message", "PrivateMessage"}

IsErrorTo(e, id) == IsSend(e) /\ e.target = id /\ e.payload.type = "Error"

IsCall(e, op) == e.op = op

\* the positions of the log that satisfy Test
Positions(Test(_)) == {i \in 1..Len(log) : Test(log[i])}

Count(Test(_)) == Cardinality(Positions(Test))

Dispatches == Positions(IsDispatch)

\* the positions at which `message` is sent as an Error to the sender
ErrorsToSender(message) ==
    {i \in 1..Len(log) : IsErrorTo(log[i], last.user_id) /\ log[i].payload.message = message}

AllErrorsToSender == {i \in 1..Len(log) : IsErrorTo(log[i], last.user_id)}

ValidateCalls == {i \in 1..Len(log) : IsCall(log[i], "validate")}

IsBannedCalls == {i \in 1..Len(log) : IsCall(log[i], "is_banned")}

RateLimitCalls == {i \in 1..Len(log) : IsCall(log[i], "check_new_message")}

-----------------------------------------------------------------------------
(* C1 *)

\* C1 as stated: an unauthenticated sender's attempt, whatever the content, the
\* recipient and the rate-limiter state, sends exactly one NotLoggedIn to the
\* sender and dispatches nothing.
C1_AsStated ==
    (Handled /\ ~SenderLoggedIn) =>
        /\ Cardinality(ErrorsToSender(NotLoggedIn)) = 1
        /\ Dispatches = {}

\* C1 amended: an unauthenticated sender's attempt sends exactly one NotLoggedIn
\* to the sender and dispatches nothing, except a private-message attempt over
\* budget, which sends RateLimited and no NotLoggedIn.
C1_NotLoggedIn ==
    (Handled /\ ~SenderLoggedIn) =>
        /\ Dispatches = {}
        /\ IF IsPrivate /\ OverBudget
           THEN /\ ErrorsToSender(NotLoggedIn) = {}
                /\ Cardinality(ErrorsToSender(RateLimited)) = 1
           ELSE Cardinality(ErrorsToSender(NotLoggedIn)) = 1

C1_Witness ==
    /\ IsPrivate
    /\ ~SenderLoggedIn
    /\ ~OverBudget
    /\ ~ContentValid
    /\ Cardinality(ErrorsToSender(NotLoggedIn)) = 1

-----------------------------------------------------------------------------
(* C2 *)

\* C2 as stated: an attempt, broadcast or private, of a sender over budget sends
\* exactly one RateLimited and calls neither validate nor is_banned.
C2_AsStated ==
    (Handled /\ OverBudget) =>
        /\ Cardinality(ErrorsToSender(RateLimited)) = 1
        /\ ValidateCalls = {}
        /\ IsBannedCalls = {}

\* the sender passes basic_check: logged in, valid content, not banned
PassesBasicCheck == SenderLoggedIn /\ ContentValid /\ ~SenderBanned

\* C2 amended: a private-message attempt of a sender over budget sends exactly
\* one RateLimited and calls neither validate nor is_banned; a broadcast attempt
\* asks the rate limiter only after basic_check has admitted it, so that
\* validate and is_banned have been called when RateLimited is sent, and a
\* broadcast that basic_check rejects never reaches the rate limiter.
C2_RateGate ==
    (Handled /\ OverBudget) =>
        IF IsPrivate
        THEN /\ Cardinality(ErrorsToSender(RateLimited)) = 1
             /\ ValidateCalls = {}
             /\ IsBannedCalls = {}
             /\ RateLimitCalls = {1}
        ELSE IF PassesBasicCheck
             THEN /\ Cardinality(ErrorsToSender(RateLimited)) = 1
                  /\ ValidateCalls = {1}
                  /\ IsBannedCalls = {2}
                  /\ RateLimitCalls = {3}
             ELSE /\ ErrorsToSender(RateLimited) = {}
                  /\ RateLimitCalls = {}

C2_Witness ==
    /\ IsPrivate
    /\ OverBudget
    /\ SenderLoggedIn
    /\ ~ContentValid
    /\ Cardinality(ErrorsToSender(RateLimited)) = 1

-----------------------------------------------------------------------------
(* C3 *)

\* C3 as stated: an attempt of a logged-in, banned sender with valid content
\* sends exactly one Banned to the sender and dispatches nothing.
C3_AsStated ==
    (Handled /\ SenderBanned /\ ContentValid) =>
        /\ Cardinality(ErrorsToSender(Banned)) = 1
        /\ Dispatches = {}

\* C3 amended: an attempt of a logged-in, banned sender with valid content
\* sends exactly one Banned to the sender and dispatches nothing, except a
\* private-message attempt over budget, which sends RateLimited and no Banned.
C3_Banned ==
    (Handled /\ SenderBanned /\ ContentValid) =>
        /\ Dispatches = {}
        /\ IF IsPrivate /\ OverBudget
           THEN /\ ErrorsToSender(Banned) = {}
                /\ Cardinality(ErrorsToSender(RateLimited)) = 1
           ELSE Cardinality(ErrorsToSender(Banned)) = 1

C3_Witness ==
    /\ IsBroadcast
    /\ SenderBanned
    /\ ContentValid
    /\ OverBudget
    /\ Cardinality(ErrorsToSender(Banned)) = 1
    /\ Cardinality(DOMAIN connections) = MaxConn

-----------------------------------------------------------------------------
(* C4, C5, C6: private-message resolution *)

\* the sender of a private message has passed the rate gate and basic_check
Admitted == IsPrivate /\ ~OverBudget /\ PassesBasicCheck

Receiver == unwrap(last.receiver)

ReceiverKnown == Receiver \in DOMAIN ids

IsLive(id) == id \in DOMAIN connections

AllowsMessages(id) ==
    is_some(connections[id].user) /\ unwrap(connections[id].user).allow_messages

\* the recipient's sessions, in iteration order, and those that allow messages
Candidates == SelectSeq(ids[Receiver], IsLive)

Eligible == SelectSeq(Candidates, AllowsMessages)

IsPrivateSend(e) == IsSend(e) /\ e.payload.type = "PrivateMessage"

\* the delivery attempts of the handler, in the order they were made
Attempts == SelectSeq(log, IsPrivateSend)

Delivered == {i \in 1..Len(Attempts) : Attempts[i].result}

\* C4: the attempts of an admitted private message go, in order, to the
\* candidates that allow messages; every attempt but the last has failed, the
\* search stops short of the last such candidate only on a success, the packet
\* carries the sender's identity and the content, and after a success the sender
\* is sent no error.
C4_FirstSuccess ==
    (Admitted /\ ReceiverKnown) =>
        /\ Len(Attempts) <= Len(Eligible)
        /\ \A i \in 1..Len(Attempts) :
              /\ Attempts[i].target = Eligible[i]
              /\ Attempts[i].payload
                    = PrivateMessagePacket(unwrap(Sender.user), last.content)
              /\ (i < Len(Attempts) => ~Attempts[i].result)
        /\ (Len(Attempts) < Len(Eligible)) => (Delivered = {Len(Attempts)})
        /\ (Delivered # {}) => (AllErrorsToSender = {})

\* the recipient has three sessions: the first refuses private messages, the
\* send to the second fails, the third gets the message
C4_Witness ==
    /\ Admitted
    /\ ReceiverKnown
    /\ Len(Candidates) = 3
    /\ ~AllowsMessages(Candidates[1])
    /\ Len(Attempts) = 2
    /\ Attempts[1].target = Candidates[2] /\ ~Attempts[1].result
    /\ Attempts[2].target = Candidates[3] /\ Attempts[2].result
    /\ AllErrorsToSender = {}

\* C5: when the search of an admitted private message ends without a successful
\* delivery, exactly one PrivateMessageNotAccepted is sent to the sender, and
\* when no candidate allows messages no delivery is attempted.
C5_Exhaustion ==
    (Admitted /\ ReceiverKnown /\ Delivered = {}) =>
        /\ Cardinality(ErrorsToSender(PrivateMessageNotAccepted)) = 1
        /\ AllErrorsToSender = ErrorsToSender(PrivateMessageNotAccepted)
        /\ Len(Attempts) = Len(Eligible)
        /\ (Eligible = <<>>) => (Dispatches = {})

\* every session of the recipient refuses private messages
C5_Witness ==
    /\ Admitted
    /\ ReceiverKnown
    /\ Len(Candidates) = MaxConn + 1
    /\ Eligible = <<>>
    /\ Attempts = <<>>
    /\ Cardinality(ErrorsToSender(PrivateMessageNotAccepted)) = 1

\* C6: an admitted private message to an identity that is not in the identity
\* index sends nothing: no event to the sender, no delivery attempt.
C6_UnknownReceiver ==
    (Admitted /\ ~ReceiverKnown) => (Positions(IsSend) = {})

C6_Witness ==
    /\ Admitted
    /\ ~ReceiverKnown
    /\ Cardinality(DOMAIN connections) = MaxConn
    /\ Len(log) = 3

-----------------------------------------------------------------------------
(* C7: broadcast *)

Accepted == IsBroadcast /\ ~OverBudget /\ PassesBasicCheck

MessageSendsTo(id) ==
    {i \in 1..Len(log) : IsSend(log[i]) /\ log[i].target = id
                          /\ log[i].payload.type = "Message"}

\* C7: an accepted broadcast makes exactly one delivery attempt on every
\* registered session and none elsewhere, whatever attempts fail.
C7_OneAttemptEach ==
    Accepted =>
        /\ \A id \in DOMAIN connections : Cardinality(MessageSendsTo(id)) = 1
        /\ \A i \in Positions(IsSend) :
              /\ log[i].target \in DOMAIN connections
              /\ log[i].payload = MessagePacket(unwrap(Sender.user), last.content)

\* every attempt failed and every session was attempted
C7_Witness ==
    /\ Accepted
    /\ Cardinality(DOMAIN connections) = MaxConn + 1
    /\ Cardinality(Positions(IsSend)) = MaxConn + 1
    /\ \A i \in Positions(IsSend) : ~log[i].result

-----------------------------------------------------------------------------
(* C8, C9: basic_check *)

\* the reason the validator gives for rejecting the content
Reason == validate(last.content).source

\* C8 as stated: a logged-in sender whose content the validator rejects is sent
\* the validator's reason and nothing is dispatched.
C8_AsStated ==
    (Handled /\ SenderLoggedIn /\ ~ContentValid) =>
        /\ Cardinality(ErrorsToSender(Reason)) = 1
        /\ Dispatches = {}

\* C8 amended: a logged-in sender whose content the validator rejects is sent
\* the validator's reason unchanged, directly after the validator's answer, and
\* nothing is dispatched, except on a private-message attempt over budget, where
\* the validator is not asked and RateLimited is sent.
C8_Verbatim ==
    (Handled /\ SenderLoggedIn /\ ~ContentValid) =>
        /\ Dispatches = {}
        /\ IF IsPrivate /\ OverBudget
           THEN /\ ValidateCalls = {}
                /\ ErrorsToSender(Reason) = {}
                /\ Cardinality(ErrorsToSender(RateLimited)) = 1
           ELSE /\ Cardinality(ValidateCalls) = 1
                /\ \A i \in ValidateCalls :
                      /\ log[i].result = AxoChat(Reason)
                      /\ ErrorsToSender(Reason) = {i + 1}

C8_Witness ==
    /\ IsBroadcast
    /\ SenderLoggedIn
    /\ last.content = <<"h", "BEL">>
    /\ ErrorsToSender(InvalidCharacter("BEL")) = {2}

\* basic_check has run: always on a broadcast, after the rate gate on a private
\* message
BasicCheckRan == Handled /\ (IsBroadcast \/ ~OverBudget)

\* the errors basic_check itself sends
ContentErrors ==
    {i \in AllErrorsToSender :
        log[i].payload.message \notin {NotLoggedIn, Banned, RateLimited,
                                       PrivateMessageNotAccepted}}

\* C9: basic_check checks login, then content, then ban, and the first failing
\* check alone decides its error: without identity NotLoggedIn and no call to
\* the validator or the moderation store; with invalid content the content
\* error, no call to the moderation store and no Banned, also for a banned
\* sender; the moderation store is asked only after the validator said Ok.
C9_CheckOrder ==
    BasicCheckRan =>
        /\ ~SenderLoggedIn =>
              /\ ValidateCalls = {} /\ IsBannedCalls = {}
              /\ Cardinality(ErrorsToSender(NotLoggedIn)) = 1
              /\ ContentErrors = {} /\ ErrorsToSender(Banned) = {}
        /\ (SenderLoggedIn /\ ~ContentValid) =>
              /\ Cardinality(ValidateCalls) = 1 /\ IsBannedCalls = {}
              /\ Cardinality(ContentErrors) = 1
              /\ ErrorsToSender(NotLoggedIn) = {} /\ ErrorsToSender(Banned) = {}
        /\ (SenderLoggedIn /\ ContentValid) =>
              /\ Cardinality(ValidateCalls) = 1 /\ Cardinality(IsBannedCalls) = 1
              /\ \A i \in ValidateCalls : \A j \in IsBannedCalls : i < j
              /\ ErrorsToSender(NotLoggedIn) = {} /\ ContentErrors = {}
              /\ Cardinality(ErrorsToSender(Banned)) = (IF SenderBanned THEN 1 ELSE 0)

\* a banned sender with invalid content gets the content error
C9_Witness ==
    /\ BasicCheckRan
    /\ SenderBanned
    /\ ~ContentValid
    /\ Cardinality(ContentErrors) = 1
    /\ ErrorsToSender(Banned) = {}

-----------------------------------------------------------------------------
(* C10: the rate gate aborts *)

Limited == {i \in RateLimitCalls : log[i].result}

\* C10: when check_ratelimit answers over budget, in either handler, RateLimited
\* is the last thing the handler does: nothing is dispatched and no other error
\* is sent to the sender.
C10_Abort ==
    (Handled /\ Limited # {}) =>
        /\ Dispatches = {}
        /\ Cardinality(Limited) = 1
        /\ \A i \in Limited :
              /\ ErrorsToSender(RateLimited) = {i + 1}
              /\ AllErrorsToSender = {i + 1}
              /\ Len(log) = i + 1

\* a broadcast that basic_check admitted is stopped by the rate gate
C10_Witness ==
    /\ IsBroadcast
    /\ Limited # {}
    /\ Cardinality(DOMAIN connections) = MaxConn
    /\ Len(log) = 4

-----------------------------------------------------------------------------
(* C11: rejections are resolved where they are detected *)

\* the errors of the gates: every error to the sender but the report of a
\* private message nobody accepted
GateErrors == AllErrorsToSender \ ErrorsToSender(PrivateMessageNotAccepted)

\* C11 as stated: every handled event sends at most one Error to the sender,
\* and once a gate (rate limit, login, content, ban) has sent its error the
\* handler does nothing more: in particular no PrivateMessageNotAccepted follows
\* a rejection by basic_check.
C11_AsStated ==
    Handled =>
        /\ Cardinality(AllErrorsToSender) <= 1
        /\ \A i \in GateErrors : Len(log) = i

-----------------------------------------------------------------------------
(* C12: what the sender of a private message learns about the recipient *)

\* the events that reach the sink of session id: the payloads of the sends to
\* it that the sink accepted, in order
RECURSIVE Observed(_, _)
Observed(l, id) ==
    IF l = <<>> THEN <<>>
    ELSE (IF IsSend(Head(l)) /\ Head(l).target = id /\ Head(l).result
          THEN <<Head(l).payload>> ELSE <<>>) \o Observed(Tail(l), id)

\* the sessions listed under the recipient identity
ReceiverSessions == {ids[Receiver][i] : i \in 1..Len(ids[Receiver])}

\* the sender is not itself a session of the recipient
NotSelf == last.user_id \notin ReceiverSessions

\* the registry the event was handled on, but with the recipient identity
\* absent: no entry in the identity index, its sessions not connected
TwinIds == [k \in DOMAIN ids \ {Receiver} |-> ids[k]]

TwinConnections == [c \in DOMAIN last.pre \ ReceiverSessions |-> last.pre[c]]

\* the same attempt handled on the twin registry, the sender's sink accepting
TwinRun ==
    handle_private_message(TwinConnections, TwinIds, last.user_id, Receiver,
                           last.content, {})

\* C12 as stated: an admitted sender observes the same events on its sink
\* whether the recipient identity is present with no session that allows
\* messages, or absent.
C12_AsStated ==
    (Admitted /\ ReceiverKnown /\ NotSelf /\ Eligible = <<>>) =>
        Observed(log, last.user_id) = Observed(TwinRun.log, last.user_id)

\* C12 amended: with the recipient absent the sender observes nothing; with
\* the recipient present the sender observes nothing when a delivery succeeded
\* and PrivateMessageNotAccepted (its sink accepting) when none did, whatever
\* the reason: so the sender cannot tell an absent recipient from a delivered
\* message, nor refusing sessions from failing sinks, but it can tell an absent
\* recipient from a present one that did not take the message.
C12_Distinguishable ==
    (Admitted /\ ReceiverKnown /\ NotSelf) =>
        /\ Observed(TwinRun.log, last.user_id) = <<>>
        /\ Observed(log, last.user_id)
              = IF Delivered = {} /\ log[Len(log)].result
                THEN <<ErrorPacket(PrivateMessageNotAccepted)>>
                ELSE <<>>

\* the recipient is connected and refuses private messages: the sender observes
\* PrivateMessageNotAccepted, and nothing on the registry without the recipient
C12_Witness ==
    /\ Admitted
    /\ ReceiverKnown
    /\ NotSelf
    /\ Candidates # <<>>
    /\ Eligible = <<>>
    /\ Observed(log, last.user_id) = <<ErrorPacket(PrivateMessageNotAccepted)>>
    /\ Observed(TwinRun.log, last.user_id) = <<>>

-----------------------------------------------------------------------------
(* C13: failing sinks of a broadcast *)

\* C13: whatever sends of an accepted broadcast fail, no Error is sent, to the
\* sender or to anyone, and the handler runs to its end: after the three gates
\* the log holds one Message send for every registered session.
C13_FailuresAbsorbed ==
    Accepted =>
        /\ AllErrorsToSender = {}
        /\ \A i \in Positions(IsSend) : log[i].payload.type = "Message"
        /\ Len(log) = 3 + Cardinality(DOMAIN connections)
        /\ Cardinality(Positions(IsSend)) = Cardinality(DOMAIN connections)

\* every sink is closed, the sender's own included
C13_Witness ==
    /\ Accepted
    /\ Cardinality(DOMAIN connections) = MaxConn
    /\ \A id \in DOMAIN connections :
          \E i \in MessageSendsTo(id) : ~log[i].result
    /\ AllErrorsToSender = {}

-----------------------------------------------------------------------------
(* C14: what an accepted broadcast delivers *)

\* C14: an accepted broadcast sends one Message to every registered
\* connection, the sender's own and the sessions without identity included,
\* and to nobody else; the Message names the sender's identity as author and
\* carries the submitted content unchanged; a session receives it exactly when
\* its sink accepts the send.
C14_Broadcast ==
    Accepted =>
        /\ {log[i].target : i \in Positions(IsSend)} = DOMAIN connections
        /\ last.user_id \in {log[i].target : i \in Dispatches}
        /\ \A id \in DOMAIN connections :
              /\ Cardinality(MessageSendsTo(id)) = 1
              /\ \A i \in MessageSendsTo(id) :
                    /\ log[i].payload.author_id = IdOf(unwrap(Sender.user).name)
                    /\ log[i].payload.author_info
                          = Some([name |-> unwrap(Sender.user).name,
                                  uuid |-> unwrap(Sender.user).uuid])
                    /\ log[i].payload.content = last.content
                    /\ Observed(log, id) = IF log[i].result THEN <<log[i].payload>> ELSE <<>>

\* the sender, a session without identity and a session of another account
\* all receive the broadcast
C14_Witness ==
    /\ Accepted
    /\ last.content = <<"h", "i">>
    /\ \E a, b \in DOMAIN connections :
          /\ connections[a].user = None
          /\ is_some(connections[b].user)
          /\ unwrap(connections[b].user).name # unwrap(Sender.user).name
    /\ \A id \in DOMAIN connections :
          Observed(log, id) = <<MessagePacket(unwrap(Sender.user), <<"h", "i">>)>>

-----------------------------------------------------------------------------
(* C15: who a private message is sent to *)

\* the session is logged in under the recipient identity
IsReceiver(id) ==
    is_some(connections[id].user) /\ IdOf(unwrap(connections[id].user).name) = Receiver

\* C15: whatever the sender and the outcome of the gates, handle_private_message
\* dispatches nothing but PrivateMessage events, attempts them only on sessions
\* that are listed under the recipient identity, connected, logged in as the
\* recipient and allowing messages, never twice on the same session, and at
\* most one attempt is accepted.
C15_OnlyReceptive ==
    IsPrivate =>
        /\ Dispatches = Positions(IsPrivateSend)
        /\ \A i \in 1..Len(Attempts) :
              /\ ReceiverKnown
              /\ Attempts[i].target \in ReceiverSessions
              /\ IsLive(Attempts[i].target)
              /\ IsReceiver(Attempts[i].target)
              /\ AllowsMessages(Attempts[i].target)
              /\ \A j \in 1..Len(Attempts) :
                    (Attempts[j].target = Attempts[i].target) => (i = j)
        /\ Cardinality(Delivered) <= 1

\* two sessions of the recipient allow messages and a third session has no
\* identity: the first session takes the message, the others get nothing
C15_Witness ==
    /\ Admitted
    /\ ReceiverKnown
    /\ Len(Eligible) = 2
    /\ \E a \in DOMAIN connections : connections[a].user = None
    /\ Len(Attempts) = 1
    /\ Attempts[1].target = Eligible[1]
    /\ Delivered = {1}

-----------------------------------------------------------------------------
(* C16: a recipient without connections *)

\* the recipient identity resolves to no connection: it is not in the identity
\* index, or its entry lists no connected session
ResolvesToNone == ReceiverKnown => (Candidates = <<>>)

\* C16 as stated: an admitted private message to an identity that resolves to
\* no connection is dropped without a word, also when the identity is in the
\* index with an empty entry: nothing is sent, to the sender or to anyone.
C16_AsStated ==
    (Admitted /\ ResolvesToNone) => (Positions(IsSend) = {})

-----------------------------------------------------------------------------
(* C17: one event at a time *)

Panics == {i \in 1..Len(log) : IsCall(log[i], "panic")}

-----------------------------------------------------------------------------
(* C18: what a message handler changes *)

\* every id listed under an identity is a connected session logged in as it
RegistryInvariant ==
    \A k \in DOMAIN ids : \A i \in 1..Len(ids[k]) :
        /\ ids[k][i] \in DOMAIN connections
        /\ is_some(connections[ids[k][i]].user)
        /\ IdOf(unwrap(connections[ids[k][i]].user).name) = k

\* the step in which a handler runs
HandlerStep == Idle /\ ~Idle'

\* C18: a step of handle_message or handle_private_message, whether the
\* attempt is admitted or rejected, leaves the identity index, the set of
\* connections, every session's identity and preference and every other
\* session's rate limiter as they were, and so keeps the registry invariant.
C18_Frame ==
    [][HandlerStep =>
          /\ ids' = ids
          /\ DOMAIN connections' = DOMAIN connections
          /\ \A id \in DOMAIN connections :
                /\ connections'[id].user = connections[id].user
                /\ (id # last'.user_id) => (connections'[id] = connections[id])
          /\ RegistryInvariant => RegistryInvariant']_vars

\* a private message was handled on a full registry: the sender's rate limiter
\* has moved, the other session is as it was, the invariant holds
C18_Witness ==
    /\ IsPrivate
    /\ Cardinality(DOMAIN connections) = MaxConn
    /\ Cardinality(DOMAIN ids) = 2
    /\ RegistryInvariant
    /\ connections[last.user_id].rate_limiter # Sender.rate_limiter
    /\ connections[last.user_id].user = Sender.user
    /\ \A id \in DOMAIN connections \ {last.user_id} :
          /\ connections[id] = last.pre[id]
          /\ connections[id].rate_limiter = 0

-----------------------------------------------------------------------------
(* C19: when an attempt is counted *)

\* C19: a handled event asks the sender's rate limiter at most once.  A
\* broadcast asks it only after basic_check has admitted the attempt: rejected
\* by basic_check, it asks nothing and leaves the sender's rate limiter as it
\* was.  A private message asks it first, before any other check, whoever the
\* sender is and whatever the content, and the sender's rate limiter is then
\* the one the rate limiter's check leaves.
C19_Recording ==
    Handled =>
        /\ Cardinality(RateLimitCalls) <= 1
        /\ (IsBroadcast /\ ~PassesBasicCheck) =>
              /\ RateLimitCalls = {}
              /\ connections[last.user_id].rate_limiter = Sender.rate_limiter
        /\ (IsBroadcast /\ PassesBasicCheck) =>
              /\ RateLimitCalls = {Cardinality(ValidateCalls \cup IsBannedCalls) + 1}
              /\ connections[last.user_id].rate_limiter
                    = check_new_message(Sender.rate_limiter).rate_limiter
        /\ IsPrivate =>
              /\ RateLimitCalls = {1}
              /\ log[1].target = last.user_id
              /\ connections[last.user_id].rate_limiter
                    = check_new_message(Sender.rate_limiter).rate_limiter

\* a private message of a session without identity uses up the budget
C19_Witness ==
    /\ IsPrivate
    /\ ~SenderLoggedIn
    /\ Sender.rate_limiter = 0
    /\ connections[last.user_id].rate_limiter = 1
    /\ RateLimitCalls = {1}
    /\ Cardinality(ErrorsToSender(NotLoggedIn)) = 1

====
